---- MODULE Spec2Model ----
(***************************************************************************)
(* The container physical map of libfsapfs                                 *)
(* (libfsapfs/libfsapfs_container_physical_map.c): a handle that owns an   *)
(* array of map entries, filled by read_data from a little-endian block    *)
(* and searched by get_physical_address_by_object_identifier.              *)
(* With it: the map entry as a handle of its own, as its tests use it, and *)
(* the object map (libfsapfs/libfsapfs_container_object_map.h), the root   *)
(* block number of a B-tree that a resolution walks node by node.          *)
(*                                                                         *)
(* Bytes are numbers 0..255 and a buffer is a sequence of bytes.  A 32-bit *)
(* value is the pair <<high 16 bits, low 16 bits>> and a 64-bit value the  *)
(* tuple of its four 16-bit words, most significant first, so that every   *)
(* value of the full width is represented exactly.                         *)
(***************************************************************************)
EXTENDS Integers, Sequences, FiniteSets, TLC

VARIABLES
    container_physical_map, \* the handle variable: NULL or a pointer to [entries_array |-> ...]
    result,                 \* the return value of the last call
    error,                  \* the errors set during the last call, innermost first
    physical_address,       \* the caller's uint64_t that lookups write into
    call,                   \* the last call and its arguments, with the state it started from
    lookups,                \* the in-flight lookups of the reader threads
    container_physical_map_entry, \* the handle variable of one map entry
    read_loop,              \* a read_data in flight, pass by pass of its entry loop
    resolution              \* an object map resolution in flight, node by node

\* the state of the callers that use the physical map only
others == <<container_physical_map_entry, read_loop, resolution>>

vars == <<container_physical_map, result, error, physical_address, call, lookups,
          others>>

\* A pointer is NULL or <<the object it points to>>
NULL == << >>
PointerTo(object) == << object >>
Deref(pointer) == pointer[1]

\* the value of physical_address before any lookup wrote it
Unset == << 65535, 65535, 65535, 65535 >>

\* an array slot that holds no entry
NullEntry == [ object_identifier |-> << >>, physical_address |-> << >> ]

(***************************************************************************)
(* Bounds of the model                                                     *)
(***************************************************************************)
\* a block is read into a map that holds at most this many entries
MaxEntriesBeforeRead == 2
\* number of reader threads
NumThreads == 2

(***************************************************************************)
(* Error kinds: libcerror domain and code, as passed to libcerror_error_set *)
(***************************************************************************)
ARGUMENTS_INVALID_VALUE       == <<"ARGUMENTS", "INVALID_VALUE">>
RUNTIME_VALUE_ALREADY_SET     == <<"RUNTIME", "VALUE_ALREADY_SET">>
RUNTIME_VALUE_MISSING         == <<"RUNTIME", "VALUE_MISSING">>
RUNTIME_VALUE_OUT_OF_BOUNDS   == <<"RUNTIME", "VALUE_OUT_OF_BOUNDS">>
RUNTIME_UNSUPPORTED_VALUE     == <<"RUNTIME", "UNSUPPORTED_VALUE">>
RUNTIME_INITIALIZE_FAILED     == <<"RUNTIME", "INITIALIZE_FAILED">>
RUNTIME_APPEND_FAILED         == <<"RUNTIME", "APPEND_FAILED">>
RUNTIME_GET_FAILED            == <<"RUNTIME", "GET_FAILED">>
RUNTIME_FINALIZE_FAILED       == <<"RUNTIME", "FINALIZE_FAILED">>
MEMORY_INSUFFICIENT           == <<"MEMORY", "INSUFFICIENT">>
MEMORY_SET_FAILED             == <<"MEMORY", "SET_FAILED">>
IO_SEEK_FAILED                == <<"IO", "SEEK_FAILED">>
IO_READ_FAILED                == <<"IO", "READ_FAILED">>
\* the kind the entry decoder reports for a record shorter than 40 bytes
ENTRY_TRUNCATED               == <<"RUNTIME", "TRUNCATED">>

\* The error kinds of the design, by the libcerror domain and code that carry them
ErrorKind(e) ==
    IF e[1] = "ARGUMENTS" THEN "ArgumentError"
    ELSE IF e = RUNTIME_VALUE_OUT_OF_BOUNDS THEN "OutOfBounds"
    ELSE IF e = RUNTIME_UNSUPPORTED_VALUE THEN "UnsupportedType"
    ELSE IF e = ENTRY_TRUNCATED THEN "Truncated"
    ELSE IF e[1] = "IO" THEN "IoError"
    ELSE IF e[1] = "MEMORY" THEN "MemoryError"
    ELSE "RuntimeError"

(***************************************************************************)
(* Byte stream                                                             *)
(***************************************************************************)
\* data[ offset ], offsets counted from 0 as in C
ByteAt(data, offset) == data[offset + 1]

\* two bytes, least significant first, as one 16-bit word
Word16(data, offset) == ByteAt(data, offset) + 256 * ByteAt(data, offset + 1)

\* byte_stream_copy_to_uint32_little_endian: <<high word, low word>>
byte_stream_copy_to_uint32_little_endian(data, offset) ==
    << Word16(data, offset + 2), Word16(data, offset) >>

\* byte_stream_copy_to_uint64_little_endian: four words, most significant first
byte_stream_copy_to_uint64_little_endian(data, offset) ==
    << Word16(data, offset + 6), Word16(data, offset + 4),
       Word16(data, offset + 2), Word16(data, offset) >>

(***************************************************************************)
(* The on-disk layout                                                      *)
(***************************************************************************)
\* sizeof( fsapfs_container_physical_map_t ): the physical map header
sizeof_fsapfs_container_physical_map_t == 40
\* sizeof( fsapfs_container_physical_map_entry_t )
sizeof_fsapfs_container_physical_map_entry_t == 40
\* data_offset = 40: where the entries start
FirstEntryOffset == 40
\* offsets of the header fields read by read_data
OffsetObjectType == 24
OffsetNumberOfEntries == 36
\* offsets of the entry fields kept by the entry decoder
EntryOffsetObjectIdentifier == 24
EntryOffsetPhysicalAddress == 32
\* the object type of a physical map block, 0x4000000c, as <<0x4000, 0x000c>>
PhysicalMapObjectType == << 16384, 12 >>
\* the most entries one block may declare
MaxNumberOfMapEntries == 101
\* A size_t is 64 bits wide (sizeof( size_t ) = 8 on the LP64 build) and is
\* kept as its four 16-bit words, most significant first, like a uint64_t.
\* size_t(n) is the size_t of the number n, 0 <= n < 2^31.
size_t(n) == << 0, 0, n \div 65536, n % 65536 >>
\* SSIZE_MAX of that build: 2^63 - 1
SSIZE_MAX == << 32767, 65535, 65535, 65535 >>
\* (size_t) SSIZE_MAX + 1
SizeAboveSSizeMax == << 32768, 0, 0, 0 >>
\* a < b on two size_t values
size_t_less(a, b) ==
    \E i \in 1..4 :
        /\ a[i] < b[i]
        /\ \A j \in 1..(i - 1) : a[j] = b[j]
\* a - b on two size_t values, modulo 2^64
size_t_minus(a, b) ==
    LET d4 == a[4] - b[4]
        d3 == a[3] - b[3] - (IF d4 < 0 THEN 1 ELSE 0)
        d2 == a[2] - b[2] - (IF d3 < 0 THEN 1 ELSE 0)
        d1 == a[1] - b[1] - (IF d2 < 0 THEN 1 ELSE 0)
    IN  << (d1 + 65536) % 65536, (d2 + 65536) % 65536,
           (d3 + 65536) % 65536, (d4 + 65536) % 65536 >>

\* the count compared as a 16-bit value
ExceedsMaxInLowWord(number_of_map_entries) ==
    number_of_map_entries[2] > MaxNumberOfMapEntries

\* number_of_map_entries > 101 on the 32-bit value
ExceedsMaxNumberOfMapEntries(number_of_map_entries) ==
    \/ number_of_map_entries[1] > 0
    \/ number_of_map_entries[2] > MaxNumberOfMapEntries

(***************************************************************************)
(* libfsapfs_container_physical_map_entry_read_data                        *)
(* Decodes one 40-byte entry record found at data_offset, data_size being  *)
(* the number of bytes left from there.                                    *)
(***************************************************************************)
container_physical_map_entry_read_data(data, data_offset, data_size) ==
    IF \/ size_t_less( data_size,
                       size_t( sizeof_fsapfs_container_physical_map_entry_t ) )
       \/ size_t_less( SSIZE_MAX, data_size )
    THEN [ result |-> -1, error |-> << ENTRY_TRUNCATED >>, map_entry |-> NullEntry ]
    ELSE [ result    |-> 1,
           error     |-> << >>,
           map_entry |->
             [ object_identifier |->
                 byte_stream_copy_to_uint64_little_endian(
                     Deref(data), data_offset + EntryOffsetObjectIdentifier ),
               physical_address |->
                 byte_stream_copy_to_uint64_little_endian(
                     Deref(data), data_offset + EntryOffsetPhysicalAddress ) ] ]

(***************************************************************************)
(* libfsapfs_container_physical_map_read_data                              *)
(***************************************************************************)
\* Memory failures are inputs: NoFailure, or the allocation of entry `index'
\* failing ("initialize"), or the array failing to grow for it ("append").
NoFailure == [ stage |-> "none", index |-> 0 ]

\* the data size check without its lower bound
DataSizeExceedsMaximum(data_size) ==
    size_t_less( SSIZE_MAX, data_size )

\* the data size check without its upper bound
DataSizeBelowHeader(data_size) ==
    size_t_less( data_size, size_t( sizeof_fsapfs_container_physical_map_t ) )

\* the data size check of read_data
DataSizeOutOfBounds(data_size) ==
    \/ size_t_less( data_size, size_t( sizeof_fsapfs_container_physical_map_t ) )
    \/ size_t_less( SSIZE_MAX, data_size )

\* the object type compared in its low 16 bits
UnsupportedInLowWord(object_type) ==
    object_type[2] # PhysicalMapObjectType[2]

\* the object type check of read_data
UnsupportedObjectType(object_type) ==
    object_type # PhysicalMapObjectType

\* a loop that decodes every entry at the same offset
KeepDataOffset(data_offset) ==
    data_offset

\* data_offset += sizeof( fsapfs_container_physical_map_entry_t )
AdvanceDataOffset(data_offset) ==
    data_offset + sizeof_fsapfs_container_physical_map_entry_t

\* libcdata_array_append_entry on the entries array
AppendEntry(entries_array, map_entry) ==
    Append(entries_array, map_entry)

\* The state of the entry loop: the locals of read_data and what it has
\* done to the array.  result is 1 while no step has failed.
LoopStart(entries_array) ==
    [ result          |-> 1,
      error           |-> << >>,
      entries_array   |-> entries_array,
      data_offset     |-> FirstEntryOffset,
      map_entry_index |-> 0 ]

\* One pass of the entry loop.  On a failure the pass leaves through
\* on_error, which frees the entry that was not appended yet and nothing
\* else: the entries appended by earlier passes stay in the array.
ReadMapEntry(st, data, data_size, failure) ==
    IF failure = [ stage |-> "initialize", index |-> st.map_entry_index ]
    THEN [ st EXCEPT !.result = -1,
                     !.error = << MEMORY_INSUFFICIENT, RUNTIME_INITIALIZE_FAILED >> ]
    ELSE LET read == container_physical_map_entry_read_data(
                         data, st.data_offset,
                         size_t_minus( data_size, size_t( st.data_offset ) ) )
         IN  IF read.result # 1
             THEN [ st EXCEPT !.result = -1,
                              !.error = read.error \o << IO_READ_FAILED >> ]
             ELSE IF failure = [ stage |-> "append", index |-> st.map_entry_index ]
             THEN [ st EXCEPT !.result = -1,
                              !.data_offset = AdvanceDataOffset( @ ),
                              !.error = << MEMORY_INSUFFICIENT, RUNTIME_APPEND_FAILED >> ]
             ELSE [ st EXCEPT !.data_offset = AdvanceDataOffset( @ ),
                              !.entries_array = AppendEntry( @, read.map_entry ),
                              !.map_entry_index = @ + 1 ]

\* for( map_entry_index = 0; map_entry_index < number_of_map_entries; ... )
RECURSIVE ReadMapEntries(_, _, _, _, _)
ReadMapEntries(st, data, data_size, number_of_map_entries, failure) ==
    IF st.result # 1 \/ ~(st.map_entry_index < number_of_map_entries)
    THEN st
    ELSE ReadMapEntries( ReadMapEntry( st, data, data_size, failure ),
                         data, data_size, number_of_map_entries, failure )

\* read_data on the handle `map' (NULL or a physical map).  data is NULL or
\* the buffer; data_size is what the caller passes for it.
\* Returns the result, the errors set and the entries array afterwards.
container_physical_map_read_data(map, data, data_size, failure) ==
    IF map = NULL
    THEN [ result |-> -1, error |-> << ARGUMENTS_INVALID_VALUE >>,
           entries_array |-> << >> ]
    ELSE IF data = NULL
    THEN [ result |-> -1, error |-> << RUNTIME_VALUE_MISSING >>,
           entries_array |-> Deref(map).entries_array ]
    ELSE IF DataSizeOutOfBounds( data_size )
    THEN [ result |-> -1, error |-> << RUNTIME_VALUE_OUT_OF_BOUNDS >>,
           entries_array |-> Deref(map).entries_array ]
    ELSE LET object_type ==
                 byte_stream_copy_to_uint32_little_endian(
                     Deref(data), OffsetObjectType )
             number_of_map_entries ==
                 byte_stream_copy_to_uint32_little_endian(
                     Deref(data), OffsetNumberOfEntries )
         IN  IF UnsupportedObjectType( object_type )
             THEN [ result |-> -1, error |-> << RUNTIME_UNSUPPORTED_VALUE >>,
                    entries_array |-> Deref(map).entries_array ]
             ELSE IF ExceedsMaxNumberOfMapEntries( number_of_map_entries )
             THEN [ result |-> -1, error |-> << RUNTIME_VALUE_OUT_OF_BOUNDS >>,
                    entries_array |-> Deref(map).entries_array ]
             ELSE LET st == ReadMapEntries(
                               LoopStart( Deref(map).entries_array ),
                               data, data_size, number_of_map_entries[2], failure )
                  IN  [ result |-> st.result, error |-> st.error,
                        entries_array |-> st.entries_array ]

(***************************************************************************)
(* libfsapfs_container_physical_map_get_physical_address_by_object_        *)
(* identifier                                                              *)
(***************************************************************************)
\* the identifiers compared in their low 16 bits
MatchesInLowWord(object_identifier, map_entry) ==
    object_identifier[4] = map_entry.object_identifier[4]

\* object_identifier == map_entry->object_identifier
MatchesObjectIdentifier(object_identifier, map_entry) ==
    object_identifier = map_entry.object_identifier

\* The failures of the libcdata calls are inputs: NoFailure, or
\* libcdata_array_get_number_of_entries failing ("number_of_entries"), or
\* libcdata_array_get_entry_by_index failing for entry `index' ("entry").
LookupFailures ==
    { NoFailure, [ stage |-> "number_of_entries", index |-> 0 ] }
        \cup [ stage : { "entry" }, index : { 0, 1 } ]

\* The state of the scan: entry_index, and once the scan has returned
\* (done) its result, with the value behind the caller's pointer.
ScanStart(address) ==
    [ done |-> FALSE, result |-> 0, error |-> << >>,
      physical_address |-> address, entry_index |-> 0 ]

\* a pass that stores the address of the entry before it compares
ScanEntryStoringFirst(st, entries_array, object_identifier, failure) ==
    IF failure.stage = "entry" /\ failure.index = st.entry_index
    THEN [ st EXCEPT !.done = TRUE, !.result = -1,
                     !.error = << RUNTIME_GET_FAILED >> ]
    ELSE
    LET map_entry == entries_array[st.entry_index + 1]
    IN  IF map_entry = NullEntry
        THEN [ st EXCEPT !.done = TRUE, !.result = -1,
                         !.error = << RUNTIME_VALUE_MISSING >> ]
        ELSE IF object_identifier = map_entry.object_identifier
        THEN [ st EXCEPT !.done = TRUE, !.result = 1,
                         !.physical_address = map_entry.physical_address ]
        ELSE [ st EXCEPT !.entry_index = @ + 1,
                         !.physical_address = map_entry.physical_address ]

\* a pass that stores the address of a matching entry and scans on, so that
\* the last match is the one returned
ScanEntryKeepingLast(st, entries_array, object_identifier, failure) ==
    IF failure.stage = "entry" /\ failure.index = st.entry_index
    THEN [ st EXCEPT !.done = TRUE, !.result = -1,
                     !.error = << RUNTIME_GET_FAILED >> ]
    ELSE
    LET map_entry == entries_array[st.entry_index + 1]
    IN  IF map_entry = NullEntry
        THEN [ st EXCEPT !.done = TRUE, !.result = -1,
                         !.error = << RUNTIME_VALUE_MISSING >> ]
        ELSE IF object_identifier = map_entry.object_identifier
        THEN [ st EXCEPT !.result = 1, !.entry_index = @ + 1,
                         !.physical_address = map_entry.physical_address ]
        ELSE [ st EXCEPT !.entry_index = @ + 1 ]

\* One pass of the loop over the entries array
ScanEntry(st, entries_array, object_identifier, failure) ==
    IF failure.stage = "entry" /\ failure.index = st.entry_index
    THEN [ st EXCEPT !.done = TRUE, !.result = -1,
                     !.error = << RUNTIME_GET_FAILED >> ]
    ELSE
    LET map_entry == entries_array[st.entry_index + 1]
    IN  IF map_entry = NullEntry
        THEN [ st EXCEPT !.done = TRUE, !.result = -1,
                         !.error = << RUNTIME_VALUE_MISSING >> ]
        ELSE IF MatchesObjectIdentifier( object_identifier, map_entry )
        THEN [ st EXCEPT !.done = TRUE, !.result = 1,
                         !.physical_address = map_entry.physical_address ]
        ELSE [ st EXCEPT !.entry_index = @ + 1 ]

\* for( entry_index = 0; entry_index < number_of_entries; entry_index++ )
RECURSIVE ScanEntries(_, _, _, _)
ScanEntries(st, entries_array, object_identifier, failure) ==
    IF st.done \/ ~(st.entry_index < Len(entries_array))
    THEN st
    ELSE ScanEntries( ScanEntry( st, entries_array, object_identifier, failure ),
                      entries_array, object_identifier, failure )

\* the lookup; address is the pointer to the caller's uint64_t.  Returns the
\* value behind that pointer afterwards (when there is one).
container_physical_map_get_physical_address_by_object_identifier(map, object_identifier, address, failure) ==
    IF map = NULL
    THEN [ result |-> -1, error |-> << ARGUMENTS_INVALID_VALUE >>,
           physical_address |-> IF address = NULL THEN Unset ELSE Deref(address) ]
    ELSE IF address = NULL
    THEN [ result |-> -1, error |-> << RUNTIME_VALUE_MISSING >>,
           physical_address |-> Unset ]
    ELSE IF failure.stage = "number_of_entries"
    THEN [ result |-> -1, error |-> << RUNTIME_GET_FAILED >>,
           physical_address |-> Deref(address) ]
    ELSE LET st == ScanEntries( ScanStart( Deref(address) ),
                                Deref(map).entries_array, object_identifier,
                                failure )
         IN  [ result |-> st.result, error |-> st.error,
               physical_address |-> st.physical_address ]

(***************************************************************************)
(* Blocks: the buffers handed to read_data                                 *)
(* A block is described by its header fields and its entries and encoded   *)
(* into bytes here; read_data sees the bytes only.                         *)
(***************************************************************************)
Bytes16(w) == << w % 256, w \div 256 >>
Bytes32(v) == Bytes16(v[2]) \o Bytes16(v[1])
Bytes64(v) == Bytes16(v[4]) \o Bytes16(v[3]) \o Bytes16(v[2]) \o Bytes16(v[1])
Filled(n, b) == [ i \in 1..n |-> b ]

\* checksum, identifier, version, type, subtype, flags, number of entries
HeaderBytes(object_type, number_of_entries) ==
    Filled(8, 170) \o Filled(8, 187) \o Filled(8, 204)
        \o Bytes32(object_type) \o Filled(4, 221) \o Filled(4, 238)
        \o Bytes32(number_of_entries)

\* the 24 leading bytes of the entry of the test vector, then the two fields
EntryBytes(e) ==
    << 5, 0, 0, 128, 0, 0, 0, 0, 0, 16, 0, 0, 0, 0, 0, 0 >> \o Filled(8, 0)
        \o Bytes64(e.object_identifier) \o Bytes64(e.physical_address)

RECURSIVE EntriesBytes(_)
EntriesBytes(entries) ==
    IF entries = << >> THEN << >>
    ELSE EntriesBytes(SubSeq(entries, 1, Len(entries) - 1))
             \o EntryBytes(entries[Len(entries)])

Entry(oid, address) == [ object_identifier |-> oid, physical_address |-> address ]

\* entry i of a full block: distinct identifiers 0x10000+i, addresses 0x20000+i
FullEntry(i) == Entry( << 0, 0, 1, i >>, << 0, 0, 2, i >> )
FullEntries(n) == [ i \in 1..n |-> FullEntry(i) ]

\* A block: its object type, the count it declares, and the entries it holds:
\* `full' generated entries followed by the listed ones.
Block(object_type, number_of_entries, full, listed) ==
    [ object_type |-> object_type, number_of_entries |-> number_of_entries,
      full |-> full, listed |-> listed ]

BlockEntries(b) == FullEntries(b.full) \o b.listed

BlockBytes(b) ==
    HeaderBytes(b.object_type, b.number_of_entries)
        \o EntriesBytes(BlockEntries(b))

\* object identifiers 0x400, 0x8000000000000400 and 0x401
OidA == << 0, 0, 0, 1024 >>
OidB == << 32768, 0, 0, 1024 >>
OidC == << 0, 0, 0, 1025 >>
ObjectIdentifiers == { OidA, OidB, OidC }
\* physical addresses 9, 0x100000009 and 0x0a00
AddrP == << 0, 0, 0, 9 >>
AddrQ == << 0, 1, 0, 9 >>
AddrR == << 0, 0, 0, 2560 >>

\* the listed entry lists: pairwise distinct identifiers in the first five,
\* a repeated identifier in the last two
ListedEntryLists ==
    { << >>,
      << Entry(OidA, AddrP) >>,
      << Entry(OidB, AddrQ) >>,
      << Entry(OidA, AddrP), Entry(OidB, AddrQ) >>,
      << Entry(OidB, AddrR), Entry(OidC, AddrP) >>,
      << Entry(OidA, AddrP), Entry(OidA, AddrQ) >>,
      << Entry(OidC, AddrR), Entry(OidB, AddrQ), Entry(OidC, AddrP) >> }

Count(n) == << 0, n >>

\* object types that are not the physical map type: 0x4000000b, 0x0000000c,
\* 0x400c0000, 0x8000000c
OtherObjectTypes == { << 16384, 11 >>, << 0, 12 >>, << 16396, 0 >>, << 32768, 12 >> }

\* blocks whose count is the number of entries they hold
WellFormedBlocks ==
    { Block(PhysicalMapObjectType, Count(Len(l)), 0, l) : l \in ListedEntryLists }

\* blocks of another object type, with any count
OtherTypeBlocks ==
    { Block(t, Count(0), 0, << >>) : t \in OtherObjectTypes }
        \cup { Block(<< 16384, 11 >>, Count(Len(l)), 0, l) :
                 l \in { l \in ListedEntryLists : Len(l) \in 1..2 } }
        \cup { Block(<< 16384, 11 >>, c, 0, << >>) :
                 c \in { Count(MaxNumberOfMapEntries + 1), << 1, 0 >> } }

\* blocks that declare more than 101 entries: 102 (with and without the
\* entries), 0x10000, 0x10001, 0xffffffff
OverfullBlocks ==
    { Block(PhysicalMapObjectType, c, 0, << Entry(OidA, AddrP) >>) :
                 c \in { Count(MaxNumberOfMapEntries + 1), << 1, 0 >>, << 1, 1 >>,
                         << 65535, 65535 >> } }

\* blocks that declare more entries than they hold
ShortBlocks ==
    { Block(PhysicalMapObjectType, Count(Len(l) + 1), 0, l) :
        l \in { l \in ListedEntryLists : Len(l) <= 2 } }
        \cup { Block(PhysicalMapObjectType, Count(MaxNumberOfMapEntries), 0, l) :
                 l \in { l \in ListedEntryLists : Len(l) <= 1 } }

\* blocks that hold more entries than they declare
LongBlocks ==
    { Block(PhysicalMapObjectType, Count(Len(l) - 1), 0, l) :
        l \in { l \in ListedEntryLists : Len(l) = 2 } }

Blocks == WellFormedBlocks \cup OtherTypeBlocks \cup OverfullBlocks
              \cup ShortBlocks \cup LongBlocks

\* The blocks of a whole block of entries: 101 declared and held, 101
\* declared and 100 held, 102 declared and held.
FullBlock == Block(PhysicalMapObjectType, Count(MaxNumberOfMapEntries),
                   MaxNumberOfMapEntries, << >>)

FullBlocks ==
    { FullBlock,
      Block(PhysicalMapObjectType, Count(MaxNumberOfMapEntries),
            MaxNumberOfMapEntries - 1, << >>),
      Block(PhysicalMapObjectType, Count(MaxNumberOfMapEntries + 1),
            MaxNumberOfMapEntries + 1, << >>) }

\* the bytes of every block
EncodedBlocks == [ b \in Blocks \cup FullBlocks |-> BlockBytes(b) ]

\* A buffer: a block, whether the data pointer is NULL, and the data_size
\* passed with it.
Buffer(b, null, data_size) == [ block |-> b, null |-> null, data_size |-> data_size ]

\* the data pointer of a buffer
BufferData(buffer) ==
    IF buffer.null THEN NULL ELSE PointerTo( EncodedBlocks[buffer.block] )

BlockSize(b) ==
    sizeof_fsapfs_container_physical_map_t
        + Len(BlockEntries(b)) * sizeof_fsapfs_container_physical_map_entry_t

WholeBuffer(b) == Buffer(b, FALSE, size_t( BlockSize(b) ))

EmptyBlock == Block(PhysicalMapObjectType, Count(0), 0, << >>)

Buffers ==
    { WholeBuffer(b) : b \in Blocks }
        \* the last byte, or all but one byte of the last entry, cut off
        \cup { Buffer(b, FALSE, size_t( BlockSize(b) - c )) :
                 b \in { b \in WellFormedBlocks : Len(BlockEntries(b)) \in 1..2 },
                 c \in { 1, sizeof_fsapfs_container_physical_map_entry_t - 1 } }
        \* less than a header
        \cup { Buffer(b, FALSE, size_t( n )) :
                 b \in { EmptyBlock,
                         Block(<< 16384, 11 >>, Count(0), 0, << >>),
                         Block(PhysicalMapObjectType, << 1, 0 >>, 0,
                               << Entry(OidA, AddrP) >>) },
                 n \in { 0, sizeof_fsapfs_container_physical_map_t - 1 } }
        \* no data
        \cup { Buffer(EmptyBlock, TRUE,
                       size_t( sizeof_fsapfs_container_physical_map_t )) }
        \* sizes of 2^31, 2^32 - 1 and SSIZE_MAX, and a size above SSIZE_MAX
        \cup { Buffer(EmptyBlock, FALSE, n) :
                 n \in { << 0, 0, 32768, 0 >>, << 0, 0, 65535, 65535 >>,
                         SSIZE_MAX, SizeAboveSSizeMax } }

\* the memory failures: at the first or the second entry
Failures ==
    [ stage : { "initialize", "append" }, index : { 0, 1 } ]

\* the inputs of read_data: every buffer without a memory failure, and the
\* memory failures with the well-formed blocks of two or three entries
ReadInputs ==
    { [ buffer |-> b, failure |-> NoFailure ] : b \in Buffers }
        \cup { [ buffer |-> WholeBuffer(b), failure |-> f ] :
                 b \in { b \in WellFormedBlocks : Len(BlockEntries(b)) \in 2..3 },
                 f \in Failures }

\* the inputs of read_data on a fresh map: the blocks of the physical map
\* type, and the full block with its last byte cut off
FreshInputs ==
    { [ buffer |-> WholeBuffer(b), failure |-> NoFailure ] :
        b \in WellFormedBlocks \cup LongBlocks \cup FullBlocks
                 \cup OverfullBlocks \cup ShortBlocks }
        \cup { [ buffer |-> Buffer(FullBlock, FALSE,
                                    size_t( BlockSize(FullBlock) - 1 )),
                 failure |-> NoFailure ] }

\* what the block reader may deliver to read_file_io_handle: a failed seek,
\* a failed or short read, or the header of a block read in full; and, with
\* the headers that declare entries, the memory failures at the first entry
Header(b) ==
    PointerTo( SubSeq( EncodedBlocks[b], 1, sizeof_fsapfs_container_physical_map_t ) )

FileInputs ==
    { [ block |-> EmptyBlock, seek_result |-> -1, read_count |-> 0,
        failure |-> NoFailure ] }
        \cup { [ block |-> EmptyBlock, seek_result |-> 0, read_count |-> n,
                 failure |-> NoFailure ] :
                 n \in { -1, 0, sizeof_fsapfs_container_physical_map_t - 1 } }
        \cup { [ block |-> b, seek_result |-> 0,
                 read_count |-> sizeof_fsapfs_container_physical_map_t,
                 failure |-> NoFailure ] :
                 b \in { b \in Blocks : b.full = 0 /\ Len(b.listed) <= 1 }
                          \cup { FullBlock } }
        \cup { [ block |-> b, seek_result |-> 0,
                 read_count |-> sizeof_fsapfs_container_physical_map_t,
                 failure |-> f ] :
                 b \in { b \in WellFormedBlocks : Len(BlockEntries(b)) \in 1..2 }
                          \cup { FullBlock },
                 f \in { f \in Failures : f.index = 0 } }
        \cup { [ block |-> EmptyBlock, seek_result |-> s, read_count |-> n,
                 failure |-> [ stage |-> "initialize", index |-> 0 ] ] :
                 s \in { -1, 0 },
                 n \in { sizeof_fsapfs_container_physical_map_t - 1,
                         sizeof_fsapfs_container_physical_map_t } }

(***************************************************************************)
(* libfsapfs_container_physical_map_initialize and _free                   *)
(***************************************************************************)
\* an initialize that does not look at what the handle variable holds
initialize_overwriting(pointer, map, failure) ==
    IF pointer = NULL
    THEN [ result |-> -1, error |-> << ARGUMENTS_INVALID_VALUE >>, map |-> map ]
    ELSE IF failure = "allocate"
    THEN [ result |-> -1, error |-> << MEMORY_INSUFFICIENT >>, map |-> NULL ]
    ELSE IF failure = "clear"
    THEN [ result |-> -1, error |-> << MEMORY_SET_FAILED >>, map |-> NULL ]
    ELSE IF failure = "array"
    THEN [ result |-> -1,
           error |-> << MEMORY_INSUFFICIENT, RUNTIME_INITIALIZE_FAILED >>,
           map |-> NULL ]
    ELSE [ result |-> 1, error |-> << >>,
           map |-> PointerTo( [ entries_array |-> << >> ] ) ]

\* initialize on the handle variable holding `map'.  pointer is NULL for a
\* NULL container_physical_map argument.  failure names the step that fails:
\* "none", "allocate", "clear" or "array".
container_physical_map_initialize(pointer, map, failure) ==
    IF pointer = NULL
    THEN [ result |-> -1, error |-> << ARGUMENTS_INVALID_VALUE >>, map |-> map ]
    ELSE IF map # NULL
    THEN [ result |-> -1, error |-> << RUNTIME_VALUE_ALREADY_SET >>, map |-> map ]
    ELSE IF failure = "allocate"
    THEN [ result |-> -1, error |-> << MEMORY_INSUFFICIENT >>, map |-> NULL ]
    ELSE IF failure = "clear"
    THEN [ result |-> -1, error |-> << MEMORY_SET_FAILED >>, map |-> NULL ]
    ELSE IF failure = "array"
    THEN [ result |-> -1,
           error |-> << MEMORY_INSUFFICIENT, RUNTIME_INITIALIZE_FAILED >>,
           map |-> NULL ]
    ELSE [ result |-> 1, error |-> << >>,
           map |-> PointerTo( [ entries_array |-> << >> ] ) ]

\* free on the handle variable holding `map'.  failure is "array" when
\* libcdata_array_free fails: the map is freed all the same.
container_physical_map_free(pointer, map, failure) ==
    IF pointer = NULL
    THEN [ result |-> -1, error |-> << ARGUMENTS_INVALID_VALUE >>, map |-> map ]
    ELSE IF map # NULL /\ failure = "array"
    THEN [ result |-> -1, error |-> << RUNTIME_FINALIZE_FAILED >>, map |-> NULL ]
    ELSE [ result |-> 1, error |-> << >>, map |-> NULL ]

(***************************************************************************)
(* libfsapfs_container_physical_map_read_file_io_handle                    *)
(***************************************************************************)
\* read_file_io_handle without the check of the read count
read_file_io_handle_decoding_any_read(map, seek_result, read_count, data, failure) ==
    IF map = NULL
    THEN [ result |-> -1, error |-> << ARGUMENTS_INVALID_VALUE >>,
           entries_array |-> << >>, reached |-> "none" ]
    ELSE IF seek_result = -1
    THEN [ result |-> -1, error |-> << IO_SEEK_FAILED >>,
           entries_array |-> Deref(map).entries_array, reached |-> "seek" ]
    ELSE LET read == container_physical_map_read_data(
                         map, data,
                         size_t( sizeof_fsapfs_container_physical_map_t ),
                         failure )
         IN  IF read.result # 1
             THEN [ result |-> -1, error |-> read.error \o << IO_READ_FAILED >>,
                    entries_array |-> read.entries_array, reached |-> "decode" ]
             ELSE [ result |-> 1, error |-> << >>,
                    entries_array |-> read.entries_array, reached |-> "decode" ]

\* read_file_io_handle reporting a rejected block with its own read-failed
\* error only, the error of read_data dropped
read_file_io_handle_dropping_decode_error(map, seek_result, read_count, data, failure) ==
    IF map = NULL
    THEN [ result |-> -1, error |-> << ARGUMENTS_INVALID_VALUE >>,
           entries_array |-> << >>, reached |-> "none" ]
    ELSE IF seek_result = -1
    THEN [ result |-> -1, error |-> << IO_SEEK_FAILED >>,
           entries_array |-> Deref(map).entries_array, reached |-> "seek" ]
    ELSE IF read_count # sizeof_fsapfs_container_physical_map_t
    THEN [ result |-> -1, error |-> << IO_READ_FAILED >>,
           entries_array |-> Deref(map).entries_array, reached |-> "read" ]
    ELSE LET read == container_physical_map_read_data(
                         map, data,
                         size_t( sizeof_fsapfs_container_physical_map_t ),
                         failure )
         IN  IF read.result # 1
             THEN [ result |-> -1, error |-> << IO_READ_FAILED >>,
                    entries_array |-> read.entries_array, reached |-> "decode" ]
             ELSE [ result |-> 1, error |-> << >>,
                    entries_array |-> read.entries_array, reached |-> "decode" ]

\* seek_result is what libbfio_handle_seek_offset returns, read_count what
\* libbfio_handle_read_buffer returns, data the bytes it stored, failure the
\* memory failure of the read_data it calls.
\* reader names the step reached: "seek", "read" or "decode".
container_physical_map_read_file_io_handle(map, seek_result, read_count, data, failure) ==
    IF map = NULL
    THEN [ result |-> -1, error |-> << ARGUMENTS_INVALID_VALUE >>,
           entries_array |-> << >>, reached |-> "none" ]
    ELSE IF seek_result = -1
    THEN [ result |-> -1, error |-> << IO_SEEK_FAILED >>,
           entries_array |-> Deref(map).entries_array, reached |-> "seek" ]
    ELSE IF read_count # sizeof_fsapfs_container_physical_map_t
    THEN [ result |-> -1, error |-> << IO_READ_FAILED >>,
           entries_array |-> Deref(map).entries_array, reached |-> "read" ]
    ELSE LET read == container_physical_map_read_data(
                         map, data,
                         size_t( sizeof_fsapfs_container_physical_map_t ),
                         failure )
         IN  IF read.result # 1
             THEN [ result |-> -1, error |-> read.error \o << IO_READ_FAILED >>,
                    entries_array |-> read.entries_array, reached |-> "decode" ]
             ELSE [ result |-> 1, error |-> << >>,
                    entries_array |-> read.entries_array, reached |-> "decode" ]

(***************************************************************************)
(* The state machine: one caller using one handle variable                 *)
(***************************************************************************)
Threads == 1 .. NumThreads

Idle == [ pc |-> "idle" ]

Init ==
    /\ container_physical_map = NULL
    /\ result = 0
    /\ error = << >>
    /\ physical_address = Unset
    /\ call = [ op |-> "none" ]
    /\ lookups = [ t \in Threads |-> Idle ]
    /\ container_physical_map_entry = NULL
    /\ read_loop = Idle
    /\ resolution = Idle

Initialize ==
    \E pointer \in { NULL, PointerTo("container_physical_map") },
       failure \in { "none", "allocate", "clear", "array" } :
        LET r == container_physical_map_initialize(
                     pointer, container_physical_map, failure )
        IN  /\ container_physical_map' = r.map
            /\ result' = r.result
            /\ error' = r.error
            /\ call' = [ op |-> "initialize", pointer |-> pointer,
                         failure |-> failure, before |-> container_physical_map ]
            /\ UNCHANGED << physical_address, lookups, others >>

Free ==
    \E pointer \in { NULL, PointerTo("container_physical_map") },
       failure \in { "none", "array" } :
        LET r == container_physical_map_free(
                     pointer, container_physical_map, failure )
        IN  /\ container_physical_map' = r.map
            /\ result' = r.result
            /\ error' = r.error
            /\ call' = [ op |-> "free", pointer |-> pointer,
                         failure |-> failure,
                         before |-> container_physical_map ]
            /\ UNCHANGED << physical_address, lookups, others >>

\* the handle after a read left entries_array in it
MapAfterRead(entries_array) ==
    IF container_physical_map = NULL THEN NULL
    ELSE PointerTo( [ entries_array |-> entries_array ] )

\* the call before this one was a successful read_data of the same buffer
RepeatsLastRead(buffer) ==
    IF call.op = "read_data" THEN call.buffer = buffer /\ result = 1 ELSE FALSE

\* the bound on the growth of the entries array
MayRead ==
    IF container_physical_map = NULL THEN TRUE
    ELSE Len( Deref(container_physical_map).entries_array ) <= MaxEntriesBeforeRead

ReadData ==
    /\ MayRead
    /\ \E input \in ReadInputs :
        LET buffer == input.buffer
            failure == input.failure
            r == container_physical_map_read_data(
                     container_physical_map, BufferData(buffer),
                     buffer.data_size, failure )
        IN  /\ container_physical_map' = MapAfterRead( r.entries_array )
            /\ result' = r.result
            /\ error' = r.error
            /\ call' = [ op |-> "read_data", buffer |-> buffer,
                         failure |-> failure, before |-> container_physical_map,
                         again |-> RepeatsLastRead( buffer ) ]
            /\ UNCHANGED << physical_address, lookups, others >>

ReadFileIoHandle ==
    /\ MayRead
    /\ \E input \in FileInputs :
        LET seek_result == input.seek_result
            read_count == input.read_count
            r == container_physical_map_read_file_io_handle(
                     container_physical_map, seek_result, read_count,
                     Header(input.block), input.failure )
        IN  /\ container_physical_map' = MapAfterRead( r.entries_array )
            /\ result' = r.result
            /\ error' = r.error
            /\ call' = [ op |-> "read_file_io_handle", block |-> input.block,
                         seek_result |-> seek_result, read_count |-> read_count,
                         failure |-> input.failure,
                         reached |-> r.reached,
                         before |-> container_physical_map ]
            /\ UNCHANGED << physical_address, lookups, others >>

\* the inputs of the lookup: the listed identifiers, the first identifier of
\* the full block and one that no block holds; a NULL output pointer; and
\* the failures of the libcdata calls with two of the listed identifiers
LookupInputs ==
    { [ object_identifier |-> o, pointer |-> PointerTo("physical_address"),
        failure |-> NoFailure ] :
        o \in ObjectIdentifiers
                 \cup { FullEntry(1).object_identifier,
                        FullEntry(MaxNumberOfMapEntries).object_identifier,
                        << 0, 0, 0, 0 >> } }
        \cup { [ object_identifier |-> OidA, pointer |-> NULL,
                 failure |-> f ] :
                 f \in { NoFailure, [ stage |-> "number_of_entries", index |-> 0 ] } }
        \cup { [ object_identifier |-> o, pointer |-> PointerTo("physical_address"),
                 failure |-> f ] :
                 o \in { OidA, OidB }, f \in LookupFailures \ { NoFailure } }

GetPhysicalAddress ==
    \E input \in LookupInputs :
        LET object_identifier == input.object_identifier
            pointer == input.pointer
            r == container_physical_map_get_physical_address_by_object_identifier(
                     container_physical_map, object_identifier,
                     IF pointer = NULL THEN NULL ELSE PointerTo(physical_address),
                     input.failure )
        IN  /\ result' = r.result
            /\ error' = r.error
            /\ physical_address' =
                   IF pointer = NULL THEN physical_address ELSE r.physical_address
            /\ call' = [ op |-> "get_physical_address",
                         object_identifier |-> object_identifier,
                         pointer |-> pointer,
                         failure |-> input.failure,
                         address_before |-> physical_address,
                         before |-> container_physical_map ]
            /\ UNCHANGED << container_physical_map, lookups, others >>

Next ==
    \/ Initialize
    \/ Free
    \/ ReadData
    \/ ReadFileIoHandle
    \/ GetPhysicalAddress

Spec == Init /\ [][Next]_vars

(***************************************************************************)
(* The same caller reading whole blocks, each into a fresh map             *)
(***************************************************************************)
IsFresh(map) == map = PointerTo( [ entries_array |-> << >> ] )

ReadFresh ==
    /\ IsFresh( container_physical_map )
    /\ \E input \in FreshInputs :
        LET buffer == input.buffer
            r == container_physical_map_read_data(
                     container_physical_map, BufferData(buffer),
                     buffer.data_size, input.failure )
        IN  /\ container_physical_map' = MapAfterRead( r.entries_array )
            /\ result' = r.result
            /\ error' = r.error
            /\ call' = [ op |-> "read_data", buffer |-> buffer,
                         failure |-> input.failure,
                         before |-> container_physical_map,
                         again |-> RepeatsLastRead( buffer ) ]
            /\ UNCHANGED << physical_address, lookups, others >>

NextFresh ==
    \/ Initialize
    \/ Free
    \/ ReadFresh
    \/ GetPhysicalAddress

SpecFresh == Init /\ [][NextFresh]_vars

(***************************************************************************)
(* Reader threads: lookups on one constructed map, interleaved pass by     *)
(* pass of the loop over the entries array                                 *)
(***************************************************************************)
\* the maps constructed by read_data from the well-formed blocks
ConstructedMaps ==
    { PointerTo( [ entries_array |->
          container_physical_map_read_data(
              PointerTo( [ entries_array |-> << >> ] ),
              BufferData( WholeBuffer(b) ), size_t( BlockSize(b) ), NoFailure
          ).entries_array ] ) :
        b \in WellFormedBlocks }

InitLookup ==
    /\ container_physical_map \in ConstructedMaps
    /\ result = 0
    /\ error = << >>
    /\ physical_address = Unset
    /\ call = [ op |-> "constructed", before |-> container_physical_map ]
    /\ lookups = [ t \in Threads |-> Idle ]
    /\ container_physical_map_entry = NULL
    /\ read_loop = Idle
    /\ resolution = Idle

\* a pass that moves the entry it finds to the front of the array
LookupPassMovingToFront(map, lookup) ==
    LET entries_array == Deref(map).entries_array
        st == IF lookup.st.entry_index < lookup.number_of_entries
              THEN ScanEntry( lookup.st, entries_array, lookup.object_identifier,
                              lookup.failure )
              ELSE [ lookup.st EXCEPT !.done = TRUE, !.result = 0 ]
        i == lookup.st.entry_index + 1
    IN  [ lookup |-> [ lookup EXCEPT !.st = st ],
          map    |-> IF st.done /\ st.result = 1
                     THEN PointerTo( [ entries_array |->
                              << entries_array[i] >>
                                  \o SubSeq( entries_array, 1, i - 1 )
                                  \o SubSeq( entries_array, i + 1,
                                             Len(entries_array) ) ] )
                     ELSE map ]

\* One step of a lookup in flight: the loop test and, when it holds, one
\* pass of the loop; return( 0 ) when it does not.  The step reads the
\* entries array and the locals of its call, and writes the locals only.
LookupPass(map, lookup) ==
    [ lookup |->
        [ lookup EXCEPT !.st =
            IF lookup.st.entry_index < lookup.number_of_entries
            THEN ScanEntry( @, Deref(map).entries_array, lookup.object_identifier,
                            lookup.failure )
            ELSE [ @ EXCEPT !.done = TRUE, !.result = 0 ] ],
      map |-> map ]

\* a thread calls the lookup: the argument checks and
\* libcdata_array_get_number_of_entries, which returns the call when it fails
LookupCall(t) ==
    /\ lookups[t].pc = "idle"
    /\ \E object_identifier \in ObjectIdentifiers, failure \in LookupFailures :
        /\ lookups' = [ lookups EXCEPT ![t] =
               IF failure.stage = "number_of_entries"
               THEN [ pc |-> "returned",
                      object_identifier |-> object_identifier,
                      failure |-> failure,
                      number_of_entries |-> 0,
                      st |-> [ ScanStart( Unset ) EXCEPT
                                 !.done = TRUE, !.result = -1,
                                 !.error = << RUNTIME_GET_FAILED >> ] ]
               ELSE [ pc |-> "scanning",
                      object_identifier |-> object_identifier,
                      failure |-> failure,
                      number_of_entries |->
                          Len( Deref(container_physical_map).entries_array ),
                      st |-> ScanStart( Unset ) ] ]
        /\ UNCHANGED << container_physical_map, result, error,
                        physical_address, call, others >>

LookupStep(t) ==
    /\ lookups[t].pc = "scanning"
    /\ LET pass == LookupPass( container_physical_map, lookups[t] )
       IN  /\ lookups' = [ lookups EXCEPT ![t] =
                  [ pass.lookup EXCEPT !.pc =
                      IF pass.lookup.st.done THEN "returned" ELSE "scanning" ] ]
           /\ container_physical_map' = pass.map
    /\ UNCHANGED << result, error, physical_address, call, others >>

\* the caller takes the result and may call again
LookupDone(t) ==
    /\ lookups[t].pc = "returned"
    /\ lookups' = [ lookups EXCEPT ![t] = Idle ]
    /\ UNCHANGED << container_physical_map, result, error,
                    physical_address, call, others >>

NextLookup ==
    \E t \in Threads :
        \/ LookupCall(t)
        \/ LookupStep(t)
        \/ LookupDone(t)

SpecLookup == InitLookup /\ [][NextLookup]_vars

(***************************************************************************)
(* The map entry as a handle of its own:                                   *)
(* libfsapfs_container_physical_map_entry_initialize, _free and _read_data *)
(* as their callers use them                                               *)
(***************************************************************************)
\* the entry as initialize clears it
ClearedEntry == Entry( << 0, 0, 0, 0 >>, << 0, 0, 0, 0 >> )

\* initialize on the handle variable holding `entry'; failure is "none",
\* "allocate" or "clear"
container_physical_map_entry_initialize(pointer, entry, failure) ==
    IF pointer = NULL
    THEN [ result |-> -1, error |-> << ARGUMENTS_INVALID_VALUE >>, entry |-> entry ]
    ELSE IF entry # NULL
    THEN [ result |-> -1, error |-> << RUNTIME_VALUE_ALREADY_SET >>, entry |-> entry ]
    ELSE IF failure = "allocate"
    THEN [ result |-> -1, error |-> << MEMORY_INSUFFICIENT >>, entry |-> NULL ]
    ELSE IF failure = "clear"
    THEN [ result |-> -1, error |-> << MEMORY_SET_FAILED >>, entry |-> NULL ]
    ELSE [ result |-> 1, error |-> << >>, entry |-> PointerTo( ClearedEntry ) ]

\* free on the handle variable holding `entry'
container_physical_map_entry_free(pointer, entry) ==
    IF pointer = NULL
    THEN [ result |-> -1, error |-> << ARGUMENTS_INVALID_VALUE >>, entry |-> entry ]
    ELSE [ result |-> 1, error |-> << >>, entry |-> NULL ]

\* read_data on the entry handle: the argument checks, then the decoding of
\* the record at the start of data
container_physical_map_entry_read_data_into(entry, data, data_size) ==
    IF entry = NULL
    THEN [ result |-> -1, error |-> << ARGUMENTS_INVALID_VALUE >>, entry |-> entry ]
    ELSE IF data = NULL
    THEN [ result |-> -1, error |-> << ARGUMENTS_INVALID_VALUE >>, entry |-> entry ]
    ELSE LET read == container_physical_map_entry_read_data( data, 0, data_size )
         IN  IF read.result # 1
             THEN [ result |-> -1, error |-> read.error, entry |-> entry ]
             ELSE [ result |-> 1, error |-> << >>,
                    entry |-> PointerTo( read.map_entry ) ]

\* the records handed to the entry's read_data: the test vector
\* (identifier 0x400, address 9) and a second record
EntryRecords == { Entry(OidA, AddrP), Entry(OidB, AddrR) }

\* its inputs: a record with its size, with no data, with a size of 0, of
\* one byte less than a record and above SSIZE_MAX
EntryReadInputs ==
    { [ record |-> e, null |-> FALSE,
        data_size |-> size_t( sizeof_fsapfs_container_physical_map_entry_t ) ] :
        e \in EntryRecords }
        \cup { [ record |-> Entry(OidA, AddrP), null |-> TRUE,
                 data_size |-> size_t( sizeof_fsapfs_container_physical_map_entry_t ) ] }
        \cup { [ record |-> Entry(OidA, AddrP), null |-> FALSE, data_size |-> n ] :
                 n \in { size_t( 0 ),
                         size_t( sizeof_fsapfs_container_physical_map_entry_t - 1 ),
                         SizeAboveSSizeMax } }

EntryInitialize ==
    \E pointer \in { NULL, PointerTo("container_physical_map_entry") },
       failure \in { "none", "allocate", "clear" } :
        LET r == container_physical_map_entry_initialize(
                     pointer, container_physical_map_entry, failure )
        IN  /\ container_physical_map_entry' = r.entry
            /\ result' = r.result
            /\ error' = r.error
            /\ call' = [ op |-> "entry_initialize", pointer |-> pointer,
                         failure |-> failure,
                         before |-> container_physical_map_entry ]
            /\ UNCHANGED << container_physical_map, physical_address, lookups,
                            read_loop, resolution >>

EntryFree ==
    \E pointer \in { NULL, PointerTo("container_physical_map_entry") } :
        LET r == container_physical_map_entry_free(
                     pointer, container_physical_map_entry )
        IN  /\ container_physical_map_entry' = r.entry
            /\ result' = r.result
            /\ error' = r.error
            /\ call' = [ op |-> "entry_free", pointer |-> pointer,
                         failure |-> "none",
                         before |-> container_physical_map_entry ]
            /\ UNCHANGED << container_physical_map, physical_address, lookups,
                            read_loop, resolution >>

EntryReadData ==
    \E input \in EntryReadInputs :
        LET r == container_physical_map_entry_read_data_into(
                     container_physical_map_entry,
                     IF input.null THEN NULL
                     ELSE PointerTo( EntryBytes(input.record) ),
                     input.data_size )
        IN  /\ container_physical_map_entry' = r.entry
            /\ result' = r.result
            /\ error' = r.error
            /\ call' = [ op |-> "entry_read_data", buffer |-> input,
                         before |-> container_physical_map_entry ]
            /\ UNCHANGED << container_physical_map, physical_address, lookups,
                            read_loop, resolution >>

\* the buffers one caller of both handles passes to the map's read_data:
\* whole blocks of one and two entries, the NULL data, and the sizes below
\* the header and above SSIZE_MAX
HandleReadInputs ==
    { i \in ReadInputs :
        /\ i.failure = NoFailure
        /\ \/ i.buffer.null
           \/ size_t_less( i.buffer.data_size,
                           size_t( sizeof_fsapfs_container_physical_map_t ) )
           \/ size_t_less( SSIZE_MAX, i.buffer.data_size )
           \/ i.buffer \in { WholeBuffer(b) :
                  b \in { b \in WellFormedBlocks :
                            Len(BlockEntries(b)) \in 1..2 } } }

\* read_data by that caller
ReadDataOfHandles ==
    /\ MayRead
    /\ \E input \in HandleReadInputs :
        LET buffer == input.buffer
            r == container_physical_map_read_data(
                     container_physical_map, BufferData(buffer),
                     buffer.data_size, input.failure )
        IN  /\ container_physical_map' = MapAfterRead( r.entries_array )
            /\ result' = r.result
            /\ error' = r.error
            /\ call' = [ op |-> "read_data", buffer |-> buffer,
                         failure |-> input.failure,
                         before |-> container_physical_map,
                         again |-> RepeatsLastRead( buffer ) ]
            /\ UNCHANGED << physical_address, lookups, others >>

NextHandles ==
    \/ Initialize
    \/ Free
    \/ ReadDataOfHandles
    \/ GetPhysicalAddress
    \/ EntryInitialize
    \/ EntryFree
    \/ EntryReadData

SpecHandles == Init /\ [][NextHandles]_vars

(***************************************************************************)
(* read_data pass by pass: the checks before the entry loop, then one pass *)
(* of the loop per step, on the entries array of the map                   *)
(***************************************************************************)
\* read_data up to the entry loop: the argument checks, the object type and
\* the count.  looping tells whether the loop is entered.
ReadDataStart(map, data, data_size) ==
    IF map = NULL
    THEN [ looping |-> FALSE, result |-> -1, error |-> << ARGUMENTS_INVALID_VALUE >> ]
    ELSE IF data = NULL
    THEN [ looping |-> FALSE, result |-> -1, error |-> << RUNTIME_VALUE_MISSING >> ]
    ELSE IF DataSizeOutOfBounds( data_size )
    THEN [ looping |-> FALSE, result |-> -1, error |-> << RUNTIME_VALUE_OUT_OF_BOUNDS >> ]
    ELSE LET object_type ==
                 byte_stream_copy_to_uint32_little_endian(
                     Deref(data), OffsetObjectType )
             number_of_map_entries ==
                 byte_stream_copy_to_uint32_little_endian(
                     Deref(data), OffsetNumberOfEntries )
         IN  IF UnsupportedObjectType( object_type )
             THEN [ looping |-> FALSE, result |-> -1,
                    error |-> << RUNTIME_UNSUPPORTED_VALUE >> ]
             ELSE IF ExceedsMaxNumberOfMapEntries( number_of_map_entries )
             THEN [ looping |-> FALSE, result |-> -1,
                    error |-> << RUNTIME_VALUE_OUT_OF_BOUNDS >> ]
             ELSE [ looping |-> TRUE, result |-> 1, error |-> << >>,
                    number_of_map_entries |-> number_of_map_entries[2] ]

\* the inputs: the buffers of the physical map type, whole, cut short and
\* with a memory failure, and buffers that read_data rejects before the loop
LoopInputs ==
    FreshInputs
        \cup { i \in ReadInputs :
                 \/ i.failure # NoFailure
                 \/ i.buffer.data_size # size_t( BlockSize( i.buffer.block ) )
                 \/ i.buffer.null
                 \/ i.buffer.block \in OtherTypeBlocks }

\* the maps read_data is called on: fresh, or holding an entry
InitLoop ==
    /\ container_physical_map \in
           { PointerTo( [ entries_array |-> << >> ] ),
             PointerTo( [ entries_array |-> << Entry(OidC, AddrR) >> ] ) }
    /\ result = 0
    /\ error = << >>
    /\ physical_address = Unset
    /\ call = [ op |-> "none" ]
    /\ lookups = [ t \in Threads |-> Idle ]
    /\ container_physical_map_entry = NULL
    /\ read_loop = Idle
    /\ resolution = Idle

LoopCall ==
    /\ read_loop.pc = "idle"
    /\ \E input \in LoopInputs :
        LET start == ReadDataStart( container_physical_map,
                                    BufferData(input.buffer),
                                    input.buffer.data_size )
        IN  /\ read_loop' =
                   IF start.looping
                   THEN [ pc |-> "looping", buffer |-> input.buffer,
                          failure |-> input.failure,
                          number_of_map_entries |-> start.number_of_map_entries,
                          st |-> LoopStart(
                                     Deref(container_physical_map).entries_array ) ]
                   ELSE [ pc |-> "rejected", buffer |-> input.buffer,
                          failure |-> input.failure ]
            /\ result' = IF start.looping THEN result ELSE start.result
            /\ error' = IF start.looping THEN error ELSE start.error
            /\ call' = [ op |-> "read_data_loop", buffer |-> input.buffer,
                         failure |-> input.failure,
                         before |-> container_physical_map ]
    /\ UNCHANGED << container_physical_map, physical_address, lookups,
                    container_physical_map_entry, resolution >>

\* the loop test and, when it holds, one pass; otherwise return( 1 ).  A
\* pass that fails returns -1 through on_error.
LoopStep ==
    /\ read_loop.pc = "looping"
    /\ IF read_loop.st.map_entry_index < read_loop.number_of_map_entries
       THEN LET st == ReadMapEntry( read_loop.st,
                                    BufferData(read_loop.buffer),
                                    read_loop.buffer.data_size,
                                    read_loop.failure )
            IN  /\ read_loop' = [ read_loop EXCEPT
                                    !.st = st,
                                    !.pc = IF st.result = 1 THEN "looping"
                                           ELSE "returned" ]
                /\ container_physical_map' = MapAfterRead( st.entries_array )
                /\ result' = IF st.result = 1 THEN result ELSE st.result
                /\ error' = IF st.result = 1 THEN error ELSE st.error
       ELSE /\ read_loop' = [ read_loop EXCEPT !.pc = "returned" ]
            /\ result' = 1
            /\ error' = << >>
            /\ UNCHANGED container_physical_map
    /\ UNCHANGED << physical_address, call, lookups,
                    container_physical_map_entry, resolution >>

\* the caller takes the result; the next block goes into a map that holds
\* no more than MaxEntriesBeforeRead entries
LoopDone ==
    /\ read_loop.pc \in { "returned", "rejected" }
    /\ MayRead
    /\ read_loop' = Idle
    /\ UNCHANGED << container_physical_map, result, error, physical_address,
                    call, lookups, container_physical_map_entry, resolution >>

NextLoop ==
    \/ LoopCall
    \/ LoopStep
    \/ LoopDone

SpecLoop == InitLoop /\ [][NextLoop]_vars

(***************************************************************************)
(* The object map: libfsapfs_container_object_map_t holds the block number *)
(* of the root of a B-tree keyed by (object identifier, transaction        *)
(* version).  The resolution walks the tree from the root, one node read   *)
(* through the block reader per step.                                      *)
(***************************************************************************)
\* the greatest transaction version a lookup asks for
MaxTransactionVersion == 4

Key(object_identifier, transaction_version) ==
    [ object_identifier |-> object_identifier,
      transaction_version |-> transaction_version ]

\* the composite ordering: object identifier, then transaction version
KeyLessOrEqual(a, b) ==
    \/ a.object_identifier < b.object_identifier
    \/ /\ a.object_identifier = b.object_identifier
       /\ a.transaction_version <= b.transaction_version

\* A node: leaf or internal, whether its checksum matches, its keys in
\* ascending order and per key a value: the block number of a child
\* (internal) or the physical address (leaf).
Node(leaf, checksum_matches, keys, values) ==
    [ leaf |-> leaf, checksum_matches |-> checksum_matches,
      keys |-> keys, values |-> values ]

LeafNode(keys, values) == Node(TRUE, TRUE, keys, values)
InternalNode(keys, values) == Node(FALSE, TRUE, keys, values)

\* A tree on the image: the object map (the root block number), the height
\* the tree declares and the nodes by block number.
Tree(root, height, nodes) ==
    [ object_map |-> [ object_map_btree_block_number |-> root ],
      height |-> height, nodes |-> nodes ]

\* the key of an internal node entry is the least key of the child's subtree
TreeOfHeight1 ==
    Tree(1, 1,
         << LeafNode( << Key(1, 1), Key(1, 3), Key(2, 2), Key(3, 4) >>,
                      << 11, 13, 22, 34 >> ) >>)

TreeOfHeight2 ==
    Tree(1, 2,
         << InternalNode( << Key(1, 1), Key(2, 2), Key(3, 2) >>, << 2, 3, 4 >> ),
            LeafNode( << Key(1, 1), Key(1, 3) >>, << 11, 13 >> ),
            LeafNode( << Key(2, 2), Key(2, 4), Key(3, 1) >>, << 22, 24, 31 >> ),
            LeafNode( << Key(3, 2), Key(3, 4), Key(5, 3) >>, << 32, 34, 53 >> ) >>)

TreeOfHeight3 ==
    Tree(1, 3,
         << InternalNode( << Key(1, 1), Key(3, 1) >>, << 2, 3 >> ),
            InternalNode( << Key(1, 1), Key(2, 2) >>, << 4, 5 >> ),
            InternalNode( << Key(3, 1), Key(3, 4) >>, << 6, 7 >> ),
            LeafNode( << Key(1, 1), Key(1, 3) >>, << 11, 13 >> ),
            LeafNode( << Key(2, 2), Key(2, 4) >>, << 22, 24 >> ),
            LeafNode( << Key(3, 1), Key(3, 2) >>, << 31, 32 >> ),
            LeafNode( << Key(3, 4), Key(5, 3) >>, << 34, 53 >> ) >>)

ConstructedTrees == { TreeOfHeight1, TreeOfHeight2, TreeOfHeight3 }

\* Corrupt images: a child pointer of the second level that leads back to
\* the root or to its own node, a tree that declares one level less than it
\* has, and a leaf whose checksum does not match.
CorruptTrees ==
    { [ TreeOfHeight3 EXCEPT !.nodes[2].values = << 1, 5 >> ],
      [ TreeOfHeight3 EXCEPT !.nodes[3].values = << 3, 3 >> ],
      [ TreeOfHeight3 EXCEPT !.height = 2 ],
      [ TreeOfHeight2 EXCEPT !.height = 1 ],
      [ TreeOfHeight2 EXCEPT !.nodes[3].checksum_matches = FALSE ] }

Trees == ConstructedTrees \cup CorruptTrees

\* the index of the greatest key of the node that is not above the target,
\* 0 when every key is above it
SelectEntry(keys, target) ==
    LET covered == { i \in 1..Len(keys) : KeyLessOrEqual( keys[i], target ) }
    IN  IF covered = { } THEN 0
        ELSE CHOOSE i \in covered : \A j \in covered : j <= i

\* a leaf that yields its entry only for the very version asked for
LeafEntryMatchesExactly(key, target) ==
    key = target

\* the entry selected in a leaf is the resolution when it is of the object
\* identifier asked for: it then has the greatest stored version <= V
LeafEntryMatches(key, target) ==
    key.object_identifier = target.object_identifier

\* a visit that counts the nodes and does not hold the count against the
\* height the tree declares
VisitNodeUnbounded(st, tree) ==
    LET node == tree.nodes[st.block]
        entry == SelectEntry( node.keys, st.target )
        visited == [ st EXCEPT !.visited = @ + 1 ]
    IN  IF ~node.checksum_matches
        THEN [ visited EXCEPT !.pc = "returned", !.outcome = "IntegrityError" ]
        ELSE IF entry = 0
        THEN [ visited EXCEPT !.pc = "returned", !.outcome = "NotFound" ]
        ELSE IF node.leaf
        THEN IF node.keys[entry].object_identifier = st.target.object_identifier
             THEN [ visited EXCEPT !.pc = "returned", !.outcome = "Found",
                                   !.value = node.values[entry] ]
             ELSE [ visited EXCEPT !.pc = "returned", !.outcome = "NotFound" ]
        ELSE [ visited EXCEPT !.block = node.values[entry] ]

\* One step of the walk: the node at st.block is read, unless as many nodes
\* as the tree declares levels have been visited already; its checksum is
\* verified; the entry covering the target is selected; a leaf yields the
\* value and an internal node the child to visit next.
VisitNode(st, tree) ==
    IF st.visited >= tree.height
    THEN [ st EXCEPT !.pc = "returned", !.outcome = "StructuralError" ]
    ELSE LET node == tree.nodes[st.block]
             entry == SelectEntry( node.keys, st.target )
             visited == [ st EXCEPT !.visited = @ + 1 ]
         IN  IF ~node.checksum_matches
             THEN [ visited EXCEPT !.pc = "returned", !.outcome = "IntegrityError" ]
             ELSE IF entry = 0
             THEN [ visited EXCEPT !.pc = "returned", !.outcome = "NotFound" ]
             ELSE IF node.leaf
             THEN IF LeafEntryMatches( node.keys[entry], st.target )
                  THEN [ visited EXCEPT !.pc = "returned", !.outcome = "Found",
                                        !.value = node.values[entry] ]
                  ELSE [ visited EXCEPT !.pc = "returned", !.outcome = "NotFound" ]
             ELSE [ visited EXCEPT !.block = node.values[entry] ]

\* the object identifiers and transaction versions asked for
ResolveInputs ==
    { Key(o, v) : o \in 0 .. 5, v \in 0 .. MaxTransactionVersion }

InitResolve ==
    /\ container_physical_map = NULL
    /\ result = 0
    /\ error = << >>
    /\ physical_address = Unset
    /\ \E tree \in Trees : call = [ op |-> "object_map", tree |-> tree ]
    /\ lookups = [ t \in Threads |-> Idle ]
    /\ container_physical_map_entry = NULL
    /\ read_loop = Idle
    /\ resolution = Idle

\* resolve( object_map, object_identifier, transaction_version ) is called:
\* the walk starts at the root block of the object map
ResolveCall ==
    /\ resolution.pc = "idle"
    /\ \E target \in ResolveInputs :
        resolution' =
            [ pc |-> "walking", target |-> target,
              block |-> call.tree.object_map.object_map_btree_block_number,
              visited |-> 0, outcome |-> "none", value |-> 0 ]
    /\ UNCHANGED << container_physical_map, result, error, physical_address,
                    call, lookups, container_physical_map_entry, read_loop >>

ResolveStep ==
    /\ resolution.pc = "walking"
    /\ resolution' = VisitNode( resolution, call.tree )
    /\ UNCHANGED << container_physical_map, result, error, physical_address,
                    call, lookups, container_physical_map_entry, read_loop >>

\* the caller takes the outcome and may resolve again
ResolveDone ==
    /\ resolution.pc = "returned"
    /\ resolution' = Idle
    /\ UNCHANGED << container_physical_map, result, error, physical_address,
                    call, lookups, container_physical_map_entry, read_loop >>

NextResolve ==
    \/ ResolveCall
    \/ ResolveStep
    \/ ResolveDone

SpecResolve == InitResolve /\ [][NextResolve]_vars

(***************************************************************************)
(* Properties                                                              *)
(***************************************************************************)
\* the last call was read_data on a map, with data
ReadDataCalled ==
    IF call.op = "read_data"
    THEN call.before # NULL /\ ~call.buffer.null
    ELSE FALSE

\* a size of at least n bytes, and one that is not above SSIZE_MAX
AtLeast(size, n) == ~size_t_less( size, size_t( n ) )
WithinSSizeMax(size) == ~size_t_less( SSIZE_MAX, size )

\* ... and its buffer holds at least the physical map header
ReadDataWithHeader ==
    IF ReadDataCalled
    THEN /\ AtLeast( call.buffer.data_size, sizeof_fsapfs_container_physical_map_t )
         /\ WithinSSizeMax( call.buffer.data_size )
    ELSE FALSE

EntriesNow == Deref(container_physical_map).entries_array
EntriesBefore == Deref(call.before).entries_array

\* the entries the block of the last read_data declares, when its buffer
\* holds them all
DeclaredCount == call.buffer.block.number_of_entries
DeclaredEntries ==
    SubSeq( BlockEntries(call.buffer.block), 1, DeclaredCount[2] )
HoldsDeclaredEntries ==
    /\ DeclaredCount[1] = 0
    /\ DeclaredCount[2] <= Len( BlockEntries(call.buffer.block) )
    /\ AtLeast( call.buffer.data_size,
                sizeof_fsapfs_container_physical_map_t
                    + DeclaredCount[2] * sizeof_fsapfs_container_physical_map_entry_t )

PairwiseDistinct(entries) ==
    \A i, j \in 1..Len(entries) :
        i # j => entries[i].object_identifier # entries[j].object_identifier

\* the lookup of one identifier in the map as it is, by a caller whose
\* uint64_t is Unset, the libcdata calls succeeding
LookupNow(object_identifier) ==
    container_physical_map_get_physical_address_by_object_identifier(
        container_physical_map, object_identifier, PointerTo(Unset), NoFailure )

\* the case of C1: a block of the physical map type with at most 101
\* entries, all held, of distinct identifiers, decoded into a fresh map
RoundTripCase ==
    /\ ReadDataWithHeader
    /\ IsFresh( call.before )
    /\ call.buffer.block.object_type = PhysicalMapObjectType
    /\ HoldsDeclaredEntries
    /\ DeclaredCount[2] <= MaxNumberOfMapEntries
    /\ PairwiseDistinct( DeclaredEntries )
    /\ result = 1

\* C1: after a successful read_data of a valid block with N <= 101 entries of
\* pairwise distinct identifiers into a fresh map, the lookup of every entry's
\* object identifier, its libcdata calls succeeding, returns 1 and that
\* entry's physical address.
C1_RoundTrip ==
    RoundTripCase =>
        \A i \in 1..Len(DeclaredEntries) :
            LET found == LookupNow( DeclaredEntries[i].object_identifier )
            IN  /\ found.result = 1
                /\ found.physical_address = DeclaredEntries[i].physical_address

\* a whole block of 101 entries went through the round trip
C1_Witness ==
    /\ RoundTripCase
    /\ Len(DeclaredEntries) = MaxNumberOfMapEntries

\* C2: read_data rejects a block of any other object type than 0x4000000c
\* with the unsupported-value error, whatever count the block declares, and
\* appends nothing.
C2_OtherTypeRejected ==
    ( /\ ReadDataWithHeader
      /\ call.buffer.block.object_type # PhysicalMapObjectType )
        => /\ result = -1
           /\ error = << RUNTIME_UNSUPPORTED_VALUE >>
           /\ ErrorKind( error[1] ) = "UnsupportedType"
           /\ container_physical_map = call.before

\* a block of another type that declares more than 101 entries was rejected
\* by a map that holds entries
C2_Witness ==
    /\ ReadDataWithHeader
    /\ call.buffer.block.object_type # PhysicalMapObjectType
    /\ ExceedsMaxNumberOfMapEntries( DeclaredCount )
    /\ EntriesBefore # << >>
    /\ result = -1

\* C3: for a block of the physical map type, read_data rejects every count
\* above 101 with the out-of-bounds error before it decodes an entry, and
\* rejects no count up to 101 with that error.
C3_CountCeiling ==
    ( /\ ReadDataWithHeader
      /\ call.buffer.block.object_type = PhysicalMapObjectType )
        => IF DeclaredCount[1] > 0 \/ DeclaredCount[2] > MaxNumberOfMapEntries
           THEN /\ result = -1
                /\ error = << RUNTIME_VALUE_OUT_OF_BOUNDS >>
                /\ ErrorKind( error[1] ) = "OutOfBounds"
                /\ container_physical_map = call.before
           ELSE /\ RUNTIME_VALUE_OUT_OF_BOUNDS \notin { error[i] : i \in 1..Len(error) }
                /\ HoldsDeclaredEntries => result = 1

\* a block that declares and holds 102 entries was rejected
C3_Witness ==
    /\ ReadDataWithHeader
    /\ call.buffer.block.object_type = PhysicalMapObjectType
    /\ DeclaredCount = Count( MaxNumberOfMapEntries + 1 )
    /\ Len( BlockEntries(call.buffer.block) ) = MaxNumberOfMapEntries + 1
    /\ result = -1

\* a buffer shorter than the physical map header was passed to read_data
ShortHeaderCase ==
    IF ReadDataCalled
    THEN size_t_less( call.buffer.data_size,
                      size_t( sizeof_fsapfs_container_physical_map_t ) )
    ELSE FALSE

\* C4 as stated: a buffer shorter than the 40-byte header is rejected with
\* the Truncated kind, which is not the OutOfBounds kind of an excessive
\* count.
C4_AsStated ==
    ShortHeaderCase
        => /\ result = -1
           /\ ErrorKind( error[1] ) = "Truncated"
           /\ ErrorKind( error[1] ) # "OutOfBounds"

\* C4, amended: a buffer shorter than the 40-byte header is rejected with
\* the out-of-bounds error, the kind of an excessive count, and the map is
\* left as it was.
C4_ShortHeaderOutOfBounds ==
    ShortHeaderCase
        => /\ result = -1
           /\ error = << RUNTIME_VALUE_OUT_OF_BOUNDS >>
           /\ ErrorKind( error[1] ) = "OutOfBounds"
           /\ container_physical_map = call.before

\* a buffer of 39 bytes was rejected
C4_Witness ==
    /\ ShortHeaderCase
    /\ call.buffer.data_size = size_t( sizeof_fsapfs_container_physical_map_t - 1 )
    /\ result = -1

\* C5: a read_data that returns -1 leaves the entries of the map as they
\* were before the call.
C5_NoPartialResult ==
    ( ReadDataCalled /\ result = -1 )
        => container_physical_map = call.before

\* the last call was a lookup with a map and an output pointer
LookupCalled ==
    IF call.op = "get_physical_address"
    THEN call.before # NULL /\ call.pointer # NULL
    ELSE FALSE

\* ... in which the libcdata calls succeeded
LookupCompleted ==
    IF LookupCalled THEN call.failure = NoFailure ELSE FALSE

\* ... in which a libcdata call failed: libcdata_array_get_number_of_entries,
\* or libcdata_array_get_entry_by_index for an entry the scan came to
LookupInterrupted ==
    IF LookupCalled
    THEN \/ call.failure.stage = "number_of_entries"
         \/ /\ call.failure.stage = "entry"
            /\ call.failure.index < Len(EntriesBefore)
            /\ \A i \in 1..call.failure.index :
                   EntriesBefore[i].object_identifier # call.object_identifier
    ELSE FALSE

LookupMissCase ==
    /\ LookupCalled
    /\ \A i \in 1..Len(EntriesBefore) :
           EntriesBefore[i].object_identifier # call.object_identifier

\* C6 as stated: the lookup of an identifier that no entry of the map holds
\* returns 0, never -1, sets no error and leaves the caller's
\* physical_address as it was.
C6_AsStated ==
    LookupMissCase
        => /\ result = 0
           /\ error = << >>
           /\ physical_address = call.address_before

\* C6: the lookup of an identifier that no entry of the map holds leaves the
\* caller's physical_address as it was; it returns 0 and sets no error when
\* the libcdata calls of the scan succeed, and -1 with the error
\* RUNTIME/GET_FAILED when one of them fails.
C6_LookupMiss ==
    LookupMissCase
        => /\ physical_address = call.address_before
           /\ IF LookupInterrupted
              THEN result = -1 /\ error = << RUNTIME_GET_FAILED >>
              ELSE result = 0 /\ error = << >>

\* a lookup missed in a map that holds entries, by a caller whose
\* physical_address an earlier lookup had set
C6_Witness ==
    /\ LookupMissCase
    /\ LookupCompleted
    /\ EntriesBefore # << >>
    /\ call.address_before # Unset
    /\ result = 0

\* C7: a successful read_data into a fresh map leaves entries of pairwise
\* distinct object identifiers: a block that repeats one is rejected.
C7_DuplicatesReported ==
    ( /\ ReadDataCalled
      /\ IsFresh( call.before )
      /\ result = 1 )
        => PairwiseDistinct( EntriesNow )

\* C8: a second successful read_data of the same buffer leaves the entries
\* the first one left.
C8_SecondDecodeEqual ==
    ( /\ ReadDataCalled
      /\ call.again
      /\ result = 1 )
        => EntriesNow = EntriesBefore

\* the errors read_file_io_handle reports for a failed seek and for a failed
\* or short read
BlockReaderErrors ==
    { container_physical_map_read_file_io_handle(
          PointerTo( [ entries_array |-> << >> ] ), input.seek_result,
          input.read_count, Header(input.block), input.failure ).error :
        input \in { i \in FileInputs :
                      \/ i.seek_result = -1
                      \/ i.read_count # sizeof_fsapfs_container_physical_map_t } }

\* the last read_file_io_handle on a map failed at the block reader, or at
\* the decode of a block read in full
BlockReaderFailed ==
    IF call.op = "read_file_io_handle"
    THEN call.before # NULL /\ call.reached \in { "seek", "read" } /\ result = -1
    ELSE FALSE

DecodeFailed ==
    IF call.op = "read_file_io_handle"
    THEN call.before # NULL /\ call.reached = "decode" /\ result = -1
    ELSE FALSE

\* C9: the error read_file_io_handle returns for a failure of the block
\* reader (a failed seek, a failed or short read) is of the I/O kind, and the
\* one it returns when the block was read in full and read_data rejected it
\* is not: its kind, that of the first error set, is the one read_data
\* gave the rejection (unsupported type, out of bounds, truncated, or a
\* memory failure), and the error returned is none of those returned for a
\* failure of the block reader.
C9_DecodeErrorDistinct ==
    /\ BlockReaderFailed
         => /\ ErrorKind( error[1] ) = "IoError"
            /\ error \in { << IO_SEEK_FAILED >>, << IO_READ_FAILED >> }
    /\ DecodeFailed
         => /\ ErrorKind( error[1] ) # "IoError"
            /\ error \notin BlockReaderErrors
            /\ IF ErrorKind( error[1] ) = "MemoryError"
               THEN call.failure.stage = "initialize"
               ELSE ErrorKind( error[1] )
                        \in { "UnsupportedType", "OutOfBounds", "Truncated" }

\* a block of another object type was read in full into a map that holds
\* entries and rejected: the error returned starts with the unsupported
\* value error of read_data
C9_Witness ==
    /\ DecodeFailed
    /\ call.block.object_type # PhysicalMapObjectType
    /\ error = << RUNTIME_UNSUPPORTED_VALUE, IO_READ_FAILED >>
    /\ EntriesBefore # << >>
    /\ EntriesNow = EntriesBefore

\* the lookup of thread t run alone on the constructed map, with the
\* failure of a libcdata call that the thread's lookup has
LookupAlone(t) ==
    container_physical_map_get_physical_address_by_object_identifier(
        call.before, lookups[t].object_identifier, PointerTo(Unset),
        lookups[t].failure )

\* C10: lookups leave the entries of the constructed map as they are, and
\* every lookup that returns while others are in flight returns the result
\* and the address it returns when run alone.
C10_LookupsDoNotInterfere ==
    call.op = "constructed"
        => /\ container_physical_map = call.before
           /\ \A t \in Threads :
                  lookups[t].pc = "returned"
                      => /\ lookups[t].st.result = LookupAlone(t).result
                         /\ lookups[t].st.physical_address
                                = LookupAlone(t).physical_address

\* a lookup found its entry behind the first one and returned while another
\* lookup was in the middle of its scan
C10_Witness ==
    /\ call.op = "constructed"
    /\ \E t, u \in Threads :
           /\ t # u
           /\ lookups[t].pc = "returned"
           /\ lookups[t].st.result = 1
           /\ lookups[t].st.entry_index > 0
           /\ lookups[u].pc = "scanning"
           /\ lookups[u].st.entry_index > 0

(***************************************************************************)
(* Object map resolution                                                   *)
(***************************************************************************)
\* the entries stored in the leaves of a tree
StoredEntries(tree) ==
    UNION { { [ key |-> tree.nodes[b].keys[i], value |-> tree.nodes[b].values[i] ] :
                i \in 1..Len(tree.nodes[b].keys) } :
            b \in { b \in 1..Len(tree.nodes) : tree.nodes[b].leaf } }

\* the stored versions of the identifier asked for that are not above V
Candidates(tree, target) ==
    { e \in StoredEntries(tree) :
        /\ e.key.object_identifier = target.object_identifier
        /\ e.key.transaction_version <= target.transaction_version }

ResolutionReturned ==
    IF resolution.pc = "returned" THEN call.tree \in ConstructedTrees ELSE FALSE

\* C11: on a constructed tree (heights 1 to 3), a resolution of
\* (object_identifier, V) returns the value of the stored entry of that
\* identifier with the greatest version <= V, and NotFound when there is no
\* stored version <= V of that identifier.
C11_GreatestVersionNotAbove ==
    ResolutionReturned
        => LET candidates == Candidates( call.tree, resolution.target )
           IN  IF candidates = { }
               THEN resolution.outcome = "NotFound"
               ELSE /\ resolution.outcome = "Found"
                    /\ \E e \in candidates :
                        /\ \A f \in candidates :
                               f.key.transaction_version <= e.key.transaction_version
                        /\ resolution.value = e.value

\* a resolution on the tree of height 3 found an entry of a version below
\* the one asked for, while a greater version of the identifier is stored
C11_Witness ==
    /\ ResolutionReturned
    /\ call.tree.height = 3
    /\ resolution.visited = 3
    /\ resolution.outcome = "Found"
    /\ resolution.target = Key(3, 3)
    /\ resolution.value = 32

\* C12: a resolution visits at most as many nodes as the tree declares
\* levels: every step that goes on to another node counts one more visit,
\* the count never exceeds the declared height, and a walk that has used up
\* the height without reaching a result (a cycle, a child pointer to the
\* wrong level) returns StructuralError at the next step.
C12_VisitsBoundedByHeight ==
    [][ resolution.pc = "walking"
          => /\ resolution'.visited <= call.tree.height
             /\ resolution'.pc = "walking"
                  => resolution'.visited = resolution.visited + 1
             /\ resolution.visited = call.tree.height
                  => /\ resolution'.pc = "returned"
                     /\ resolution'.outcome = "StructuralError" ]_vars

\* a walk through the cycle of a corrupt tree of declared height 3 ended
\* with StructuralError after three visits
C12_Witness ==
    IF resolution.pc = "returned"
    THEN /\ call.tree.height = 3
         /\ call.tree.nodes[2].values[1] = 1
         /\ resolution.visited = 3
         /\ resolution.outcome = "StructuralError"
    ELSE FALSE

(***************************************************************************)
(* The order of the entries                                                *)
(***************************************************************************)
\* the indexes of the entries of the map that hold the identifier asked for
MatchingEntries ==
    { i \in 1..Len(EntriesBefore) :
        EntriesBefore[i].object_identifier = call.object_identifier }

\* C13: a lookup whose libcdata calls succeed returns the physical address
\* of the first entry, in the
\* order of the array, that holds the identifier asked for; and a successful
\* read_data leaves the entries the map held in front of the ones it
\* appends, which follow in the order of the block: the entries of an
\* earlier read_data precede, and so take precedence over, those of a later
\* one.
C13_FirstMatchInAppendOrder ==
    /\ ( LookupCompleted /\ MatchingEntries # { } )
         => /\ result = 1
            /\ \E i \in MatchingEntries :
                /\ \A j \in MatchingEntries : i <= j
                /\ physical_address = EntriesBefore[i].physical_address
    /\ ( ReadDataWithHeader /\ result = 1 )
         => EntriesNow = EntriesBefore \o DeclaredEntries

\* a lookup in a map filled by two read_data calls, where the entry of the
\* first block and an entry of the second block hold the identifier with
\* different addresses: the address of the first block's entry was returned
C13_Witness ==
    /\ LookupCompleted
    /\ EntriesBefore = << Entry(OidB, AddrQ), Entry(OidB, AddrR), Entry(OidC, AddrP) >>
    /\ call.object_identifier = OidB
    /\ result = 1
    /\ physical_address = AddrQ

(***************************************************************************)
(* Bounds of the entry loop                                                *)
(***************************************************************************)
\* a read_data is in its entry loop or has left it
InEntryLoop(loop) == loop.pc \in { "looping", "returned" }

\* the bytes the count of the block in flight needs
BytesDeclared(loop) ==
    sizeof_fsapfs_container_physical_map_t
        + loop.number_of_map_entries
              * sizeof_fsapfs_container_physical_map_entry_t

\* C14: in every step of the entry loop of read_data (data_size accepted,
\* count <= 101) data_offset stays within 40 .. data_size, so that
\* data_size - data_offset does not wrap; a pass appends a decoded entry
\* only when the 40 bytes at data_offset lie within the first data_size
\* bytes, which the buffer holds; and a read_data that returns 1 had a
\* buffer of at least 40 + 40 * count bytes: a count the buffer cannot back
\* makes the call fail.
C14_EntryLoopWithinBuffer ==
    [][ InEntryLoop( read_loop' )
          => /\ read_loop'.number_of_map_entries <= MaxNumberOfMapEntries
             /\ AtLeast( read_loop'.buffer.data_size,
                         sizeof_fsapfs_container_physical_map_t )
             /\ WithinSSizeMax( read_loop'.buffer.data_size )
             /\ read_loop'.st.data_offset >= FirstEntryOffset
             /\ AtLeast( read_loop'.buffer.data_size, read_loop'.st.data_offset )
             /\ ( /\ read_loop.pc = "looping"
                  /\ read_loop'.st.map_entry_index
                         = read_loop.st.map_entry_index + 1 )
                  => /\ AtLeast( read_loop.buffer.data_size,
                                 read_loop.st.data_offset
                                     + sizeof_fsapfs_container_physical_map_entry_t )
                     /\ read_loop.st.data_offset
                            + sizeof_fsapfs_container_physical_map_entry_t
                          <= Len( EncodedBlocks[ read_loop.buffer.block ] )
             /\ ( read_loop'.pc = "returned" /\ result' = 1 )
                  => AtLeast( read_loop'.buffer.data_size,
                              BytesDeclared( read_loop' ) )
             /\ ( /\ read_loop'.pc = "returned"
                  /\ ~AtLeast( read_loop'.buffer.data_size,
                               BytesDeclared( read_loop' ) ) )
                  => result' = -1 ]_vars

\* read_data left the loop with -1 at the entry the buffer does not hold in
\* full: its last byte is cut off, and the entry before it was appended
C14_Witness ==
    IF read_loop.pc = "returned"
    THEN /\ result = -1
         /\ read_loop.number_of_map_entries = 2
         /\ read_loop.st.map_entry_index = 1
         /\ read_loop.st.data_offset
                = FirstEntryOffset + sizeof_fsapfs_container_physical_map_entry_t
         /\ read_loop.buffer.data_size = size_t( BytesDeclared( read_loop ) - 1 )
         /\ read_loop.failure = NoFailure
    ELSE FALSE

(***************************************************************************)
(* read_file_io_handle                                                     *)
(***************************************************************************)
\* the last call was read_file_io_handle on a map
ReadFileIoHandleCalled ==
    IF call.op = "read_file_io_handle" THEN call.before # NULL ELSE FALSE

\* C15: read_file_io_handle seeks, then reads the fixed structure size, then
\* decodes: after a failed seek it stops at the seek (no read, no decode);
\* after a read that returned another count than the structure size it
\* stops at the read (no decode); read_data is reached only after a
\* successful seek and a read of exactly that size; and on a failed seek or
\* short read it returns -1 with the entries of the map as they were.
C15_SeekReadDecodeInOrder ==
    ReadFileIoHandleCalled
        => /\ call.seek_result = -1
                => /\ call.reached = "seek"
                   /\ result = -1
                   /\ container_physical_map = call.before
           /\ ( /\ call.seek_result # -1
                /\ call.read_count # sizeof_fsapfs_container_physical_map_t )
                => /\ call.reached = "read"
                   /\ result = -1
                   /\ container_physical_map = call.before
           /\ call.reached = "decode"
                => /\ call.seek_result # -1
                   /\ call.read_count = sizeof_fsapfs_container_physical_map_t

\* a read of one byte less than the structure ended the call at the read,
\* with -1, on a map that holds entries
C15_Witness ==
    /\ ReadFileIoHandleCalled
    /\ call.seek_result = 0
    /\ call.read_count = sizeof_fsapfs_container_physical_map_t - 1
    /\ call.reached = "read"
    /\ result = -1
    /\ EntriesBefore # << >>
    /\ EntriesNow = EntriesBefore

(***************************************************************************)
(* The handles                                                             *)
(***************************************************************************)
\* what an initialize call (call.op = initialize_op) did to a handle variable
InitializeHolds(initialize_op, handle) ==
    ( call.op = initialize_op )
        => IF call.pointer = NULL
           THEN /\ result = -1
                /\ error # << >>
                /\ handle = call.before
           ELSE /\ result \in { 1, -1 }
                /\ result = 1 => ( call.before = NULL /\ handle # NULL )
                /\ call.before # NULL => ( result = -1 /\ handle = call.before )
                /\ ( call.before = NULL /\ call.failure # "none" )
                       => ( result = -1 /\ handle = NULL )
                /\ ( call.before = NULL /\ call.failure = "none" ) => result = 1
                /\ result = -1 => error # << >>

\* what a free call (call.op = free_op) did to a handle variable
FreeHolds(free_op, handle) ==
    ( call.op = free_op )
        => IF call.pointer = NULL
           THEN /\ result = -1
                /\ error # << >>
                /\ handle = call.before
           ELSE /\ handle = NULL
                /\ ( call.before = NULL \/ call.failure = "none" ) => result = 1

\* C16: for the physical map and for the map entry, over every sequence of
\* calls on the handle variable: initialize returns 1 only when the variable
\* was NULL and then leaves it non-NULL; on a non-NULL variable it returns
\* -1 and leaves the variable as it was; when the allocation or the clearing
\* fails it returns -1 and leaves the variable NULL; free leaves the
\* variable NULL in every case and returns 1 when the variable was NULL
\* already (and whenever freeing the entries array does not fail);
\* initialize and free given a NULL pointer to the variable return -1 with
\* an error set.
C16_HandleLifecycle ==
    /\ InitializeHolds( "initialize", container_physical_map )
    /\ FreeHolds( "free", container_physical_map )
    /\ InitializeHolds( "entry_initialize", container_physical_map_entry )
    /\ FreeHolds( "entry_free", container_physical_map_entry )

\* initialize on a map variable that holds a map with entries returned -1
\* and left it as it was, while the entry variable holds a decoded entry
C16_Witness ==
    IF call.op = "initialize"
    THEN /\ call.pointer # NULL
         /\ call.before # NULL
         /\ container_physical_map = call.before
         /\ Deref(container_physical_map).entries_array # << >>
         /\ result = -1
         /\ error = << RUNTIME_VALUE_ALREADY_SET >>
         /\ container_physical_map_entry = PointerTo( Entry(OidA, AddrP) )
    ELSE FALSE

(***************************************************************************)
(* Invalid arguments                                                       *)
(***************************************************************************)
\* the arguments of a read_data call that the claim names: no target, no
\* data, a size above SSIZE_MAX or of 0
InvalidReadArguments(data_size) ==
    \/ call.before = NULL
    \/ call.buffer.null
    \/ size_t_less( SSIZE_MAX, data_size )
    \/ data_size = size_t( 0 )

\* C17: read_data of the physical map and of the map entry return -1 with
\* an error set, leaving the entries of the map, the entry and the caller's
\* physical_address as they were, when the target is NULL, when data is
\* NULL, when data_size is above SSIZE_MAX and when it is 0; the lookup
\* returns -1 with the same left unchanged when the map or the
\* physical_address pointer is NULL.
C17_InvalidArgumentsRejected ==
    /\ ( IF call.op = "read_data"
         THEN InvalidReadArguments( call.buffer.data_size )
         ELSE FALSE )
         => /\ result = -1
            /\ error # << >>
            /\ container_physical_map = call.before
    /\ ( IF call.op = "entry_read_data"
         THEN InvalidReadArguments( call.buffer.data_size )
         ELSE FALSE )
         => /\ result = -1
            /\ error # << >>
            /\ container_physical_map_entry = call.before
    /\ ( IF call.op = "get_physical_address"
         THEN call.before = NULL \/ call.pointer = NULL
         ELSE FALSE )
         => /\ result = -1
            /\ error # << >>
            /\ container_physical_map = call.before
            /\ physical_address = call.address_before

\* a lookup with a NULL physical_address pointer, of an identifier the map
\* holds, returned -1 and left the caller's address, set by an earlier
\* lookup, as it was
C17_Witness ==
    IF call.op = "get_physical_address"
    THEN /\ call.pointer = NULL
         /\ call.before # NULL
         /\ \E i \in 1..Len(EntriesBefore) :
                EntriesBefore[i].object_identifier = call.object_identifier
         /\ result = -1
         /\ physical_address = call.address_before
         /\ physical_address # Unset
    ELSE FALSE

====
